---- MODULE Spec2Model ----
(***************************************************************************)
(* Model of the /bfhl classification service (server.js and its two later  *)
(* revisions, with the Joi validation middleware) and of the process       *)
(* shutdown handlers.                                                      *)
(*                                                                         *)
(* JavaScript strings are sequences of one-character strings.  JavaScript  *)
(* numbers that hold non-negative integers are sequences of decimal digits *)
(* (least significant first), rounded to the 53-bit significand of an      *)
(* IEEE-754 double after every operation.                                  *)
(***************************************************************************)
EXTENDS Integers, Sequences, FiniteSets

\* ------------------------------------------------------------------ bounds
\* longest data array drawn from Items (the two long arrays are extra)
MaxLen == 3
\* number of termination signals delivered to one process
MaxSignals == 2

\* --------------------------------------------------------------- constants
\* Joi: .min(1) and .max(1000) of bfhlSchema.data
MinItems == 1
MaxItems == 1000
\* Number::toString switches to exponent notation above 21 digits
MaxPlainDigits == 21

\* ------------------------------------------------------------ characters
DigitChars == <<"0", "1", "2", "3", "4", "5", "6", "7", "8", "9">>
LowerChars == <<"a", "b", "c", "d", "e", "f", "g", "h", "i", "j", "k", "l", "m",
                "n", "o", "p", "q", "r", "s", "t", "u", "v", "w", "x", "y", "z">>
UpperChars == <<"A", "B", "C", "D", "E", "F", "G", "H", "I", "J", "K", "L", "M",
                "N", "O", "P", "Q", "R", "S", "T", "U", "V", "W", "X", "Y", "Z">>

Range(s) == {s[k] : k \in 1..Len(s)}

IndexOf(s, c) == CHOOSE k \in 1..Len(s) : s[k] = c

\* \d
IsDigitChar(c) == c \in Range(DigitChars)

\* [a-zA-Z]
IsAlphaChar(c) == c \in Range(LowerChars) \cup Range(UpperChars)

DigitVal(c) == IndexOf(DigitChars, c) - 1

\* String.prototype.toUpperCase on one ASCII character
UpperChar(c) == IF c \in Range(LowerChars) THEN UpperChars[IndexOf(LowerChars, c)] ELSE c

\* String.prototype.toLowerCase on one ASCII character
LowerChar(c) == IF c \in Range(UpperChars) THEN LowerChars[IndexOf(UpperChars, c)] ELSE c

toUpperCase(str) == [k \in 1..Len(str) |-> UpperChar(str[k])]

Reverse(s) == [k \in 1..Len(s) |-> s[Len(s) + 1 - k]]

RECURSIVE Join(_)
\* Array.prototype.join('') of an array of strings
Join(strs) == IF strs = <<>> THEN <<>> ELSE Head(strs) \o Join(Tail(strs))

\* /^\d+$/.test(item)
MatchesDigits(item) == Len(item) >= 1 /\ \A k \in 1..Len(item) : IsDigitChar(item[k])

\* /^[a-zA-Z]+$/.test(item)
MatchesAlpha(item) == Len(item) >= 1 /\ \A k \in 1..Len(item) : IsAlphaChar(item[k])

\* ---------------------------------------------------- JavaScript numbers
\* A non-negative integer is its decimal digits, least significant first,
\* without leading zeros; zero is <<>>.
\* 2^53: a JavaScript number has a 53-bit significand
TwoTo53 == <<2, 9, 9, 0, 4, 7, 4, 5, 2, 9, 9, 1, 7, 0, 0, 9>>

Zeros(n) == [k \in 1..n |-> 0]

StripZeros(n) ==
    LET nz == {k \in 1..Len(n) : n[k] # 0}
    IN  IF nz = {} THEN <<>> ELSE SubSeq(n, 1, CHOOSE k \in nz : \A j \in nz : j <= k)

\* the mathematical integer a string of decimal digits denotes
DecValue(ds) == StripZeros([k \in 1..Len(ds) |-> DigitVal(ds[Len(ds) + 1 - k])])

\* the decimal digits of a non-negative integer, as a string
DecString(n) == IF n = <<>> THEN <<"0">> ELSE [k \in 1..Len(n) |-> DigitChars[n[Len(n) + 1 - k] + 1]]

RECURSIVE AddCarry(_, _, _)
AddCarry(a, b, c) ==
    IF a = <<>> /\ b = <<>>
    THEN IF c = 1 THEN <<1>> ELSE <<>>
    ELSE LET x == IF a = <<>> THEN 0 ELSE Head(a)
             y == IF b = <<>> THEN 0 ELSE Head(b)
             s == x + y + c
         IN  <<s % 10>> \o AddCarry(IF a = <<>> THEN <<>> ELSE Tail(a),
                                    IF b = <<>> THEN <<>> ELSE Tail(b), s \div 10)

\* exact sum of two non-negative integers
BigAdd(a, b) == AddCarry(a, b, 0)

\* a < b
BigLess(a, b) ==
    IF Len(a) # Len(b) THEN Len(a) < Len(b)
    ELSE LET diff == {k \in 1..Len(a) : a[k] # b[k]}
         IN  diff # {} /\ LET top == CHOOSE k \in diff : \A j \in diff : j <= k
                          IN  a[top] < b[top]

IsOdd(n) == n # <<>> /\ n[1] % 2 = 1

\* floor(n / 2)
Halve(n) == StripZeros([k \in 1..Len(n) |->
                (n[k] + (IF k < Len(n) /\ n[k + 1] % 2 = 1 THEN 10 ELSE 0)) \div 2])

\* 2 * n
Double(n) ==
    LET low == [k \in 1..Len(n) |-> (2 * n[k] + (IF k > 1 /\ n[k - 1] >= 5 THEN 1 ELSE 0)) % 10]
    IN  IF n # <<>> /\ n[Len(n)] >= 5 THEN Append(low, 1) ELSE low

RECURSIVE TimesTwoTo(_, _)
\* n * 2^e
TimesTwoTo(n, e) == IF e = 0 THEN n ELSE Double(TimesTwoTo(n, e - 1))

RECURSIVE ShiftRound(_, _, _, _)
\* n holds the bits above the e dropped ones; half is the highest dropped bit,
\* sticky whether a lower dropped bit is set
ShiftRound(n, half, sticky, e) ==
    IF BigLess(n, TwoTo53)
    THEN LET up == half /\ (sticky \/ IsOdd(n))
         IN  TimesTwoTo(IF up THEN BigAdd(n, <<1>>) ELSE n, e)
    ELSE ShiftRound(Halve(n), IsOdd(n), sticky \/ half, e + 1)

\* the double nearest to a non-negative integer (round half to even)
RoundToDouble(n) == ShiftRound(n, FALSE, FALSE, 0)

\* parseInt(item) for an item matching /^\d+$/ of at most 20 significant digits
parseInt(item) == RoundToDouble(DecValue(item))

\* a + b on numbers
NumAdd(a, b) == RoundToDouble(BigAdd(a, b))

\* num % 2 === 0
IsEvenNum(num) == ~IsOdd(num)

\* the k most significant digits of x, the others zero
TopDigits(x, k) == [j \in 1..Len(x) |-> IF j > Len(x) - k THEN x[j] ELSE 0]

\* 10^j
TenTo(j) == Zeros(j) \o <<1>>

\* the decimal numbers of k significant digits next to x, below and above
Candidates(x, k) == {TopDigits(x, k), BigAdd(TopDigits(x, k), TenTo(Len(x) - k))}

\* the decimal digits of an exponent below 100
SmallDec(m) == IF m < 10 THEN <<DigitChars[m + 1]>>
               ELSE <<DigitChars[(m \div 10) + 1], DigitChars[(m % 10) + 1]>>

\* String(x) of a number holding a non-negative integer: the shortest decimal
\* that reads back as x, the closest to x among those (Number::toString)
NumberToString(x) ==
    IF BigLess(x, TwoTo53) THEN DecString(x)
    ELSE LET valid(k) == {c \in Candidates(x, k) : RoundToDouble(c) = x}
             ks   == {j \in 1..Len(x) : valid(j) # {}}
             k    == CHOOSE j \in ks : \A i \in ks : j <= i
             lo   == TopDigits(x, k)
             hi   == BigAdd(lo, TenTo(Len(x) - k))
             \* x - lo < hi - x, that is 2 * (x - lo) < 10^(Len(x) - k)
             loCloser == BigLess(Double(StripZeros(SubSeq(x, 1, Len(x) - k))), TenTo(Len(x) - k))
             best == IF lo \in valid(k) /\ (hi \notin valid(k) \/ loCloser) THEN lo ELSE hi
             sig  == DecString(SubSeq(best, CHOOSE j \in 1..Len(best) : best[j] # 0 /\ \A i \in 1..(j - 1) : best[i] = 0, Len(best)))
         IN  IF Len(best) <= MaxPlainDigits THEN DecString(best)
             ELSE <<Head(sig)>> \o (IF Len(sig) > 1 THEN <<".">> \o Tail(sig) ELSE <<>>)
                      \o <<"e", "+">> \o SmallDec(Len(best) - 1)

\* ------------------------------------------------------------ JSON values
\* A parsed JSON value is [kind, val]: val is the text of a string, the decimal
\* text of a number, the own property names of an object.
Str(chars) == [kind |-> "string", val |-> chars]
Num(chars) == [kind |-> "number", val |-> chars]
Obj(keys)  == [kind |-> "object", val |-> keys]

\* an own "toString" property parsed from JSON is never callable, and
\* Object.prototype.valueOf returns the object: String(x) throws a TypeError
StringThrows(x) == x.kind = "object" /\ "toString" \in Range(x.val)

\* String(x) of a parsed JSON value on which it does not throw
String(x) ==
    CASE x.kind = "string" -> x.val
      [] x.kind = "number" -> x.val
      [] x.kind = "object" -> <<"[", "o", "b", "j", "e", "c", "t", " ", "O", "b", "j", "e", "c", "t", "]">>

\* the strings clients put in data
StringItems ==
    { Str(<<>>), Str(<<"2">>), Str(<<"0", "0", "7">>),
      Str(<<"9", "0", "0", "7", "1", "9", "9", "2", "5", "4", "7", "4", "0", "9", "9", "3">>),
      Str(<<"a">>), Str(<<"B", "c">>), Str(<<"a", "1">>) }

\* the other JSON values clients put in data
OtherItems == { Num(<<"5">>), Obj(<<"toString">>) }

Items == StringItems \cup OtherItems

SeqsUpTo(S, n) == UNION {[1..m -> S] : m \in 0..n}

\* an array of n items "2"
LongArray(n) == [k \in 1..n |-> Str(<<"2">>)]

Array(elems) == [kind |-> "array", elems |-> elems]
NotArray(k)  == [kind |-> k, elems |-> <<>>]

\* values of the body's data property; "undefined" is a body without one
DataValues ==
    {Array(a) : a \in SeqsUpTo(Items, MaxLen)}
        \cup {Array(LongArray(MaxItems)), Array(LongArray(MaxItems + 1))}
        \cup {NotArray("undefined"), NotArray("null"), NotArray("string"), NotArray("object")}

\* ------------------------------------------------------------------- state
VARIABLES
    variant,        \* the file node runs: "server.js", "part_001" or "part_002"
    pc,             \* "idle", "loop" (inside the /bfhl handler) or "sent"
    data,           \* req.body.data of the request being handled: [kind, elems]
    i,              \* the handler's loop index
    response,       \* the handler's response object
    sum,            \* the handler's running sum
    allAlphabets,   \* the handler's allAlphabets
    status,         \* the status of the response sent (0: none yet)
    exitCode,       \* "none" while the process runs, else "0", "1" or "killed"
    signals,        \* termination signals received
    listening,      \* the server's listening handle is open
    closeCallbacks, \* callbacks waiting for the server's 'close' event
    timers,         \* force timers armed
    closeEmitted    \* the server's 'close' event was emitted

vars == <<variant, pc, data, i, response, sum, allAlphabets, status, exitCode,
          signals, listening, closeCallbacks, timers, closeEmitted>>

reqVars == <<pc, data, i, response, sum, allAlphabets, status>>

procVars == <<exitCode, signals, listening, closeCallbacks, timers, closeEmitted>>

Variants == {"server.js", "part_001", "part_002"}

\* the response object the handler starts from
NewResponse ==
    [is_success |-> TRUE, odd_numbers |-> <<>>, even_numbers |-> <<>>, alphabets |-> <<>>,
     special_characters |-> <<>>, sum |-> <<"0">>, concat_string |-> <<>>]

\* an error body: is_success false and none of the result fields
ErrorResponse == [NewResponse EXCEPT !.is_success = FALSE]

\* no request is being handled: the handler's locals do not exist
NoRequest ==
    /\ pc' = "idle"
    /\ data' = NotArray("undefined")
    /\ i' = 0
    /\ response' = NewResponse
    /\ sum' = <<>>
    /\ allAlphabets' = <<>>
    /\ status' = 0

Init ==
    /\ variant \in Variants
    /\ pc = "idle"
    /\ data = NotArray("undefined")
    /\ i = 0
    /\ response = NewResponse
    /\ sum = <<>>
    /\ allAlphabets = <<>>
    /\ status = 0
    /\ exitCode = "none"
    /\ signals = 0
    /\ listening = TRUE
    /\ closeCallbacks = <<>>
    /\ timers = 0
    /\ closeEmitted = FALSE

\* ------------------------------------------------------------- validation
\* server.js: if (!data || !Array.isArray(data)) is false
BasicValid(d) == d.kind = "array"

\* bfhlSchema.validate reports no error: data is required, an array of
\* strings (the empty string allowed) with 1 to 1000 items
JoiValid(d) ==
    /\ d.kind = "array"
    /\ \A k \in 1..Len(d.elems) : d.elems[k].kind = "string"
    /\ Len(d.elems) >= MinItems
    /\ Len(d.elems) <= MaxItems

\* the request reaches the classification code
PassesValidation(d) == IF variant = "server.js" THEN BasicValid(d) ELSE JoiValid(d)

\* ---------------------------------------------------------------- handler
\* generateConcatString without the reversal
generateConcatStringNoReverse(alphabets) ==
    LET allChars == Join(alphabets)
    IN  [k \in 1..Len(allChars) |->
            IF (k - 1) % 2 = 0 THEN UpperChar(allChars[k]) ELSE LowerChar(allChars[k])]

\* generateConcatString with the loop bound reversed.length - 1
generateConcatStringShort(alphabets) ==
    LET allChars == Join(alphabets)
        reversed == Reverse(allChars)
    IN  [k \in 1..(IF Len(reversed) = 0 THEN 0 ELSE Len(reversed) - 1) |->
            IF (k - 1) % 2 = 0 THEN UpperChar(reversed[k]) ELSE LowerChar(reversed[k])]

\* generateConcatString: join, reverse, then upper case at even 0-based
\* indices and lower case at odd ones
generateConcatString(alphabets) ==
    LET allChars == Join(alphabets)
        reversed == Reverse(allChars)
    IN  [k \in 1..Len(reversed) |->
            IF (k - 1) % 2 = 0 THEN UpperChar(reversed[k]) ELSE LowerChar(reversed[k])]

\* the loop body with "if" for "else if": a number also falls through to
\* the final else
ClassifyItemNoElse(item) ==
    IF MatchesDigits(item)
    THEN LET num == parseInt(item)
             r   == IF IsEvenNum(num)
                    THEN [response EXCEPT !.even_numbers = Append(@, item)]
                    ELSE [response EXCEPT !.odd_numbers = Append(@, item)]
         IN  /\ sum' = NumAdd(sum, num)
             /\ response' = [r EXCEPT !.special_characters = Append(@, item)]
             /\ UNCHANGED allAlphabets
    ELSE IF MatchesAlpha(item)
    THEN /\ response' = [response EXCEPT !.alphabets = Append(@, toUpperCase(item))]
         /\ allAlphabets' = Append(allAlphabets, item)
         /\ UNCHANGED sum
    ELSE /\ response' = [response EXCEPT !.special_characters = Append(@, item)]
         /\ UNCHANGED <<sum, allAlphabets>>

\* the loop body with unshift for push
ClassifyItemUnshift(item) ==
    IF MatchesDigits(item)
    THEN LET num == parseInt(item)
         IN  /\ sum' = NumAdd(sum, num)
             /\ response' = IF IsEvenNum(num)
                            THEN [response EXCEPT !.even_numbers = <<item>> \o @]
                            ELSE [response EXCEPT !.odd_numbers = <<item>> \o @]
             /\ UNCHANGED allAlphabets
    ELSE IF MatchesAlpha(item)
    THEN /\ response' = [response EXCEPT !.alphabets = <<toUpperCase(item)>> \o @]
         /\ allAlphabets' = Append(allAlphabets, item)
         /\ UNCHANGED sum
    ELSE /\ response' = [response EXCEPT !.special_characters = <<item>> \o @]
         /\ UNCHANGED <<sum, allAlphabets>>

\* the loop body testing the parity of the running sum instead of the item's
ClassifyItemParityOfSum(item) ==
    IF MatchesDigits(item)
    THEN LET num == parseInt(item)
         IN  /\ sum' = NumAdd(sum, num)
             /\ response' = IF IsEvenNum(NumAdd(sum, num))
                            THEN [response EXCEPT !.even_numbers = Append(@, item)]
                            ELSE [response EXCEPT !.odd_numbers = Append(@, item)]
             /\ UNCHANGED allAlphabets
    ELSE IF MatchesAlpha(item)
    THEN /\ response' = [response EXCEPT !.alphabets = Append(@, toUpperCase(item))]
         /\ allAlphabets' = Append(allAlphabets, item)
         /\ UNCHANGED sum
    ELSE /\ response' = [response EXCEPT !.special_characters = Append(@, item)]
         /\ UNCHANGED <<sum, allAlphabets>>

\* the body of the for loop on one item
ClassifyItem(item) ==
    IF MatchesDigits(item)
    THEN LET num == parseInt(item)
         IN  /\ sum' = NumAdd(sum, num)
             /\ response' = IF IsEvenNum(num)
                            THEN [response EXCEPT !.even_numbers = Append(@, item)]
                            ELSE [response EXCEPT !.odd_numbers = Append(@, item)]
             /\ UNCHANGED allAlphabets
    ELSE IF MatchesAlpha(item)
    THEN /\ response' = [response EXCEPT !.alphabets = Append(@, toUpperCase(item))]
         /\ allAlphabets' = Append(allAlphabets, item)
         /\ UNCHANGED sum
    ELSE /\ response' = [response EXCEPT !.special_characters = Append(@, item)]
         /\ UNCHANGED <<sum, allAlphabets>>

\* the catch block: 500, "Internal server error"
InternalError ==
    /\ status' = 500
    /\ response' = ErrorResponse
    /\ pc' = "sent"
    /\ UNCHANGED <<data, i, sum, allAlphabets>>

\* validation of a body whose data is d, then the handler up to its loop
Post(d) ==
    /\ data' = d
    /\ i' = 0
    /\ sum' = <<>>
    /\ allAlphabets' = <<>>
    /\ IF PassesValidation(d)
       THEN /\ response' = NewResponse
            /\ pc' = "loop"
            /\ status' = 0
       ELSE /\ response' = ErrorResponse
            /\ pc' = "sent"
            /\ status' = 400
    /\ UNCHANGED <<variant, procVars>>

\* a POST /bfhl request arrives, on a new connection or on one kept alive
Receive ==
    /\ exitCode = "none"
    /\ pc = "idle"
    /\ \E d \in DataValues : Post(d)

\* one iteration of the for loop
LoopStep ==
    /\ pc = "loop"
    /\ i < Len(data.elems)
    /\ IF StringThrows(data.elems[i + 1])
       THEN InternalError
       ELSE /\ ClassifyItem(String(data.elems[i + 1]))
            /\ i' = i + 1
            /\ UNCHANGED <<pc, data, status>>
    /\ UNCHANGED <<variant, procVars>>

\* after the loop: sum, concat_string, res.status(200).json(response)
Respond ==
    /\ pc = "loop"
    /\ i = Len(data.elems)
    /\ response' = [response EXCEPT !.sum = NumberToString(sum),
                                    !.concat_string = generateConcatString(allAlphabets)]
    /\ status' = 200
    /\ pc' = "sent"
    /\ UNCHANGED <<variant, data, i, sum, allAlphabets, procVars>>

\* the handler returned and the response is on the wire
Return ==
    /\ pc = "sent"
    /\ NoRequest
    /\ UNCHANGED <<variant, procVars>>

\* ---------------------------------------------------------------- process
\* process.exit(code), or the signal's default action: nothing survives
Exit(code) ==
    /\ exitCode' = code
    /\ NoRequest
    /\ listening' = FALSE
    /\ closeCallbacks' = <<>>
    /\ timers' = 0

\* shutDown(signal): server.close(callback), then the 10 second force timer.
\* close on a server that no longer listens hands its callback an error.
shutDown ==
    /\ closeCallbacks' = Append(closeCallbacks, IF listening THEN "ok" ELSE "err")
    /\ listening' = FALSE
    /\ timers' = timers + 1
    /\ UNCHANGED <<reqVars, exitCode, closeEmitted>>

\* SIGTERM or SIGINT is delivered between two callbacks of the event loop
Signal ==
    /\ exitCode = "none"
    /\ pc = "idle"
    /\ signals < MaxSignals
    /\ signals' = signals + 1
    /\ CASE variant = "server.js" -> Exit("killed") /\ UNCHANGED closeEmitted
         [] variant = "part_001"  -> Exit("0") /\ UNCHANGED closeEmitted
         [] variant = "part_002"  -> shutDown
    /\ UNCHANGED variant

\* the clients have ended every connection after close: 'close' is emitted
\* and its first callback runs, which ends the process
ServerClosed ==
    /\ exitCode = "none"
    /\ pc = "idle"
    /\ ~listening
    /\ closeCallbacks # <<>>
    /\ closeEmitted' = TRUE
    /\ Exit(IF Head(closeCallbacks) = "err" THEN "1" ELSE "0")
    /\ UNCHANGED <<variant, signals>>

\* the force timer fires
ForceTimer ==
    /\ exitCode = "none"
    /\ pc = "idle"
    /\ timers > 0
    /\ Exit("1")
    /\ UNCHANGED <<variant, signals, closeEmitted>>

Next ==
    \/ Receive
    \/ LoopStep
    \/ Respond
    \/ Return
    \/ Signal
    \/ ServerClosed
    \/ ForceTimer

Spec == Init /\ [][Next]_vars

\* ------------------------------------------------------------ properties
\* a response with the given status has been sent for the request in data
Sent(s) == pc = "sent" /\ status = s

\* the items of the request, each as the handler reads it
Strs == [k \in 1..Len(data.elems) |-> String(data.elems[k])]

AllStrings == \A k \in 1..Len(data.elems) : data.elems[k].kind = "string"

IsNumeric(x) == MatchesDigits(x)

IsAlphabetic(x) == ~MatchesDigits(x) /\ MatchesAlpha(x)

IsSpecial(x) == ~MatchesDigits(x) /\ ~MatchesAlpha(x)

Count(s, P(_)) == Cardinality({k \in 1..Len(s) : P(s[k])})

\* the integer a digit string denotes is even
DenotesEven(x) == DigitVal(x[Len(x)]) % 2 = 0

RECURSIVE ExactSumFrom(_, _, _, _)
\* acc plus the integers denoted by s[lo..hi], without rounding (the test on
\* left has it evaluated before the right half is entered)
ExactSumFrom(acc, s, lo, hi) ==
    IF lo > hi THEN acc
    ELSE IF lo = hi THEN BigAdd(acc, DecValue(s[lo]))
    ELSE LET mid  == (lo + hi) \div 2
             left == ExactSumFrom(acc, s, lo, mid)
         IN  IF Len(left) >= 0 THEN ExactSumFrom(left, s, mid + 1, hi) ELSE <<>>

RECURSIVE NumSumFrom(_, _, _, _)
\* ((acc + s[lo]) + ...) + s[hi] on numbers, each item read by parseInt (the
\* test on left has it evaluated before the right half is entered)
NumSumFrom(acc, s, lo, hi) ==
    IF lo > hi THEN acc
    ELSE IF lo = hi THEN NumAdd(acc, parseInt(s[lo]))
    ELSE LET mid  == (lo + hi) \div 2
             left == NumSumFrom(acc, s, lo, mid)
         IN  IF Len(left) >= 0 THEN NumSumFrom(left, s, mid + 1, hi) ELSE <<>>

RECURSIVE Flatten(_)
\* the characters of the strings of strs, in order
Flatten(strs) ==
    IF strs = <<>> THEN <<>>
    ELSE Flatten(SubSeq(strs, 1, Len(strs) - 1)) \o strs[Len(strs)]

RECURSIVE TotalLen(_, _, _)
\* the number of characters in strs[lo..hi]
TotalLen(strs, lo, hi) ==
    IF lo > hi THEN 0
    ELSE IF lo = hi THEN Len(strs[lo])
    ELSE TotalLen(strs, lo, (lo + hi) \div 2) + TotalLen(strs, (lo + hi) \div 2 + 1, hi)

ListsLen == Len(response.odd_numbers) + Len(response.even_numbers)
                + Len(response.alphabets) + Len(response.special_characters)

\* C1: every input position is appended to exactly one of the four lists:
\* digit strings only to odd_numbers or even_numbers, letter strings only to
\* alphabets, everything else (the empty string too) only to
\* special_characters; the four lengths add up to the number of items read
\* so far, and to the input length once the response is sent.
C1_Partition ==
    /\ pc = "loop" => ListsLen = i
    /\ Sent(200) =>
         /\ ListsLen = Len(data.elems)
         /\ Len(response.odd_numbers) + Len(response.even_numbers) = Count(Strs, IsNumeric)
         /\ Len(response.alphabets) = Count(Strs, IsAlphabetic)
         /\ Len(response.special_characters) = Count(Strs, IsSpecial)
         /\ \A x \in Range(response.odd_numbers) \cup Range(response.even_numbers) : IsNumeric(x)
         /\ \A x \in Range(response.alphabets) : IsAlphabetic(x)
         /\ \A x \in Range(response.special_characters) : IsSpecial(x)

\* a request of three strings, one of each class (the empty string among
\* them), has been answered
C1_Witness ==
    /\ Sent(200)
    /\ AllStrings
    /\ Len(data.elems) = 3
    /\ <<>> \in Range(Strs)
    /\ Count(Strs, IsNumeric) = 1
    /\ Count(Strs, IsAlphabetic) = 1

\* C2: the sum field is the exact decimal string of the sum of the integers
\* denoted by the items matching ^\d+$ ("0" when there is none), for every
\* input of up to 1000 strings.
C2_SumExact ==
    Sent(200) /\ AllStrings /\ Len(data.elems) <= MaxItems =>
        LET nums == SelectSeq(Strs, IsNumeric)
        IN  response.sum = DecString(ExactSumFrom(<<>>, nums, 1, Len(nums)))

\* C3: the original string of every item matching ^\d+$ is appended to
\* even_numbers if and only if the integer it denotes is even, and to
\* odd_numbers otherwise.
C3_ParityOfValue ==
    Sent(200) /\ AllStrings =>
        LET even(x) == IsNumeric(x) /\ DenotesEven(x)
            odd(x)  == IsNumeric(x) /\ ~DenotesEven(x)
        IN  /\ response.even_numbers = SelectSeq(Strs, even)
            /\ response.odd_numbers = SelectSeq(Strs, odd)

\* C4: concat_string is the concatenation of the alphabetic items in input
\* order and original casing, reversed, with the character at every even
\* 0-based index in upper case and at every odd index in lower case; it is
\* empty when no item is alphabetic.
C4_ConcatString ==
    Sent(200) =>
        LET joined == Flatten(SelectSeq(Strs, IsAlphabetic))
            n      == Len(joined)
            cs     == response.concat_string
        IN  /\ Len(cs) = n
            /\ \A k \in 0..(n - 1) :
                 cs[k + 1] = IF k % 2 = 0 THEN UpperChar(joined[n - k]) ELSE LowerChar(joined[n - k])

\* the request ["a", "Bc", x] has been answered with concat_string "CbA"
C4_Witness ==
    /\ Sent(200)
    /\ AllStrings
    /\ Len(data.elems) = 3
    /\ SelectSeq(Strs, IsAlphabetic) = <<<<"a">>, <<"B", "c">>>>
    /\ response.concat_string = <<"C", "b", "A">>

\* C5: each of the four lists keeps the input order of the items classified
\* into it; odd_numbers, even_numbers and special_characters hold the items
\* as given, alphabets the upper-cased items.
C5_InputOrder ==
    Sent(200) =>
        LET even(x) == IsNumeric(x) /\ IsEvenNum(parseInt(x))
            odd(x)  == IsNumeric(x) /\ ~IsEvenNum(parseInt(x))
            alpha   == SelectSeq(Strs, IsAlphabetic)
        IN  /\ response.even_numbers = SelectSeq(Strs, even)
            /\ response.odd_numbers = SelectSeq(Strs, odd)
            /\ response.special_characters = SelectSeq(Strs, IsSpecial)
            /\ response.alphabets = [k \in 1..Len(alpha) |-> toUpperCase(alpha[k])]

\* a request with two different items in each of two lists has been answered
C5_Witness ==
    /\ Sent(200)
    /\ AllStrings
    /\ \/ /\ Len(response.alphabets) = 2
          /\ response.alphabets[1] # response.alphabets[2]
          /\ Len(response.special_characters) = 1
       \/ /\ Len(response.odd_numbers) = 2
          /\ response.odd_numbers[1] # response.odd_numbers[2]
    /\ Len(data.elems) = 3
    /\ IsSpecial(Strs[2]) \/ IsAlphabetic(Strs[2])

\* data is missing, not an array, empty, longer than 1000 items, or holds an
\* item that is not a string
Malformed(d) ==
    \/ d.kind # "array"
    \/ Len(d.elems) = 0
    \/ Len(d.elems) > MaxItems
    \/ \E k \in 1..Len(d.elems) : d.elems[k].kind # "string"

\* C6: a request whose data is malformed is answered with status 400 and
\* is_success false, and the classification loop never runs for it.
C6_MalformedRejected ==
    pc # "idle" /\ Malformed(data) =>
        /\ pc = "sent"
        /\ status = 400
        /\ ~response.is_success
        /\ i = 0

\* the same, of the two servers that install validateBfhl
C6_OnValidatedServers == variant # "server.js" => C6_MalformedRejected

\* the response the classification of items yields, as a function of the
\* items alone
Classify(items) ==
    LET even(x) == IsNumeric(x) /\ IsEvenNum(parseInt(x))
        odd(x)  == IsNumeric(x) /\ ~IsEvenNum(parseInt(x))
        nums    == SelectSeq(items, IsNumeric)
        alpha   == SelectSeq(items, IsAlphabetic)
    IN  [is_success |-> TRUE,
         odd_numbers |-> SelectSeq(items, odd),
         even_numbers |-> SelectSeq(items, even),
         alphabets |-> [k \in 1..Len(alpha) |-> toUpperCase(alpha[k])],
         special_characters |-> SelectSeq(items, IsSpecial),
         sum |-> NumberToString(NumSumFrom(<<>>, nums, 1, Len(nums))),
         concat_string |-> generateConcatString(alpha)]

\* C7: the result of a request (the four lists, sum, concat_string) depends
\* on nothing but its own data: whatever was handled before and whatever
\* state the process is in, the response is the same function of the items.
C7_FunctionOfData == Sent(200) => response = Classify(Strs)

\* a request is answered while the server is shutting down after earlier
\* requests
C7_Witness ==
    /\ Sent(200)
    /\ signals > 0
    /\ Len(data.elems) = 3
    /\ response.sum # <<"0">>
    /\ response.concat_string # <<>>

\* C8: the length of concat_string is the number of characters of the items
\* classified as alphabetic, and the total length of the strings in alphabets.
C8_ConcatLength ==
    Sent(200) =>
        LET alpha == SelectSeq(Strs, IsAlphabetic)
        IN  /\ Len(response.concat_string) = TotalLen(alpha, 1, Len(alpha))
            /\ Len(response.concat_string) = TotalLen(response.alphabets, 1, Len(response.alphabets))

\* a request with the alphabetic items "a" and "Bc" has been answered
C8_Witness ==
    /\ Sent(200)
    /\ Len(response.alphabets) = 2
    /\ Len(response.concat_string) = 3

\* C9: a request that passes validation has every item visited once and is
\* answered with status 200 and is_success true; the 500 branch is never
\* taken for an array, whatever its items.
C9_Always200 ==
    /\ pc = "loop" => i <= Len(data.elems)
    /\ pc = "sent" /\ data.kind = "array" => status # 500
    /\ pc = "sent" /\ PassesValidation(data) =>
         /\ status = 200
         /\ response.is_success
         /\ i = Len(data.elems)

\* the same, of the two servers that install validateBfhl
C9_OnValidatedServers == variant # "server.js" => C9_Always200

\* C10: once a signal has been received the process exits with code 0 only
\* when the server's close completed without error before the force timer
\* fired, and with code 1 when close reported an error or the timer fired first.
C10_ExitCodes ==
    /\ exitCode # "none" => signals > 0
    /\ exitCode = "0" => closeEmitted

\* the same, of the server that defines shutDown
C10_OnShutDown == variant = "part_002" => C10_ExitCodes

====
